---- MODULE Spec2Model ----
(***************************************************************************)
(* WealthFlow backend (src/server.py): Flask handlers for registration,    *)
(* login, cookie sessions, per-user key-value storage and the chat relay,   *)
(* over the DBConnection scope (commit / rollback / close).                 *)
(*                                                                          *)
(* One action per HTTP handler; a request is handled atomically (one        *)
(* database scope per request).  The Flask session is the signed cookie     *)
(* the request presents: the server keeps no session table.                 *)
(***************************************************************************)
EXTENDS Integers, Sequences, FiniteSets, TLC

\* ---- bounds of the model ------------------------------------------------
MaxId == 2        \* highest value the users.id sequence may reach

\* ---- request inputs -------------------------------------------------------
None == "None"                      \* a JSON field that is missing (data.get -> None)
Usernames == {"alice", "bob"}
Passwords == {"p1", "p2"}
PasswordInputs == Passwords \cup {None, ""}
Salts == {"s1"}
Keys == {"budget"}
Ids == 1..MaxId

\* JSON values of a request body: null (also what data.get('value') gives when
\* the field is missing) and the string "null"
JNull == [t |-> "null", v |-> <<>>]
JsonValues == {JNull, [t |-> "str", v |-> <<"n", "u", "l", "l">>]}
Absent == [t |-> "absent", v |-> <<>>]

\* json.dumps: the JSON text of a value, as a sequence of characters
json_dumps(j) ==
    IF j.t = "null" THEN <<"n", "u", "l", "l">>
    ELSE IF j.t = "str" THEN <<"\"">> \o j.v \o <<"\"">>
    ELSE j.v

\* json.loads: parse a JSON text back to a value
json_loads(s) ==
    IF s = <<"n", "u", "l", "l">> THEN JNull
    ELSE IF Head(s) = "\"" THEN [t |-> "str", v |-> SubSeq(s, 2, Len(s) - 1)]
    ELSE [t |-> "num", v |-> s]

\* Python truthiness of a request field: None and "" are falsy
Falsy(x) == x \in {None, ""}

\* werkzeug.security: salted one-way hash, "method$salt$hashval"
hash_internal(salt, password) == <<salt, password>>
generate_password_hash(password, salt) ==
    [salt |-> salt, hashval |-> hash_internal(salt, password)]
\* check_password_hash raises on a password that is not a string (None.encode)
check_password_raises(password) == password = None
\* a bug: the stored hash is compared with the password itself
check_password_plain(pwhash, password) == pwhash.hashval = password

\* recompute the hash under the stored salt and compare
check_password_hash(pwhash, password) ==
    hash_internal(pwhash.salt, password) = pwhash.hashval

\* ---- session cookies ------------------------------------------------------
\* A cookie is the signed serialisation of the session dict: sig = "good" is a
\* signature made with app.secret_key.  Two cookies with the same payload are
\* the same cookie to the server.
NoCookie == [user_id |-> 0, username |-> "", sig |-> "none"]
\* a cookie made without the key: a payload under a signature that does not verify
Forged == [user_id |-> 1, username |-> "alice", sig |-> "bad"]
NoChange == [user_id |-> 0, username |-> "", sig |-> "unchanged"]
\* the cookie session.save_session signs for a session dict
sign(user_id, username) == [user_id |-> user_id, username |-> username, sig |-> "good"]
EmptySession == [user_id |-> 0, username |-> ""]

\* Flask's open_session: the session dict of a request, empty unless the cookie
\* carries a valid signature
open_session(cookie) ==
    IF cookie.sig = "good"
    THEN [user_id |-> cookie.user_id, username |-> cookie.username]
    ELSE EmptySession

\* 'user_id' in session
has_user_id(sess) == sess.user_id # 0

\* ---- database errors ------------------------------------------------------
NoExc == ""
QueryErr == "database is locked"
CommitErr == "commit failed"
RollbackErr == "rollback failed"
HashErr == "'NoneType' object has no attribute 'encode'"
FkErr == "violates foreign key constraint"
Faults == {"none", "execute", "commit", "rollback"}

\* the uniqueness violation as each backend words it
unique_violation(postgres) ==
    IF postgres THEN "duplicate key value violates unique constraint"
    ELSE "UNIQUE constraint failed: users.username"

\* a bug: only the SQLite wording is recognised
is_duplicate_error_sqlite(msg) == msg = "UNIQUE constraint failed: users.username"

\* register's except clause: "UNIQUE constraint failed" in str(e) or
\* "duplicate key value" in str(e)
is_duplicate_error(msg) ==
    msg \in {"UNIQUE constraint failed: users.username",
             "duplicate key value violates unique constraint"}

VARIABLES
    is_postgres,   \* DBConnection.is_postgres = bool(DATABASE_URL)
    users,         \* committed rows of table users
    users_seq,     \* last value handed out by the users.id sequence
    storage_new,   \* committed rows of table storage_new
    issued,        \* cookies signed so far (all of them verify)
    logged_out,    \* history: cookies a logout was made with and none was signed since
    registered,    \* history: username -> what a successful register returned
    kv,            \* history: (user_id, key) -> value of the last successful set
    last           \* the handler that ran last and the response it gave

vars == <<is_postgres, users, users_seq, storage_new, issued,
          logged_out, registered, kv, last>>

db == <<users, users_seq, storage_new>>

\* ---- responses ------------------------------------------------------------
Body(kind, error, uid, uname, role, json) ==
    [kind |-> kind, error |-> error, user_id |-> uid, username |-> uname,
     role |-> role, json |-> json]
ErrorBody(msg) == Body("error", msg, 0, "", "", Absent)
UserBody(u) == Body("user", "", u.id, u.username, u.role, Absent)
SessionBody(sess) == Body("session", "", sess.user_id, sess.username, "", Absent)
SuccessBody == Body("success", "", 0, "", "", Absent)
JsonBody(j) == Body("json", "", 0, "", "", j)
TextBody == Body("response", "", 0, "", "", Absent)
\* Flask's answer to an exception no handler catches
InternalServerError == ErrorBody("Internal Server Error")

Response(status, body, set_cookie, conn, provider) ==
    [status |-> status, body |-> body, set_cookie |-> set_cookie, conn |-> conn,
     provider |-> provider]
NoResponse == Response(0, SuccessBody, NoChange, "none", "none")

\* ---- DBConnection ---------------------------------------------------------
\* __exit__: roll back when the scope raised, commit otherwise, then close.
\* exc is the exception the scope raised (NoExc: none); the result tells
\* whether the writes were committed, whether close() ran, and the exception
\* that leaves the with statement.
db_exit(exc, fault) ==
    IF exc # NoExc
    THEN IF fault = "rollback"
         THEN [committed |-> FALSE, closed |-> FALSE, exc |-> RollbackErr]
         ELSE [committed |-> FALSE, closed |-> TRUE, exc |-> exc]
    ELSE IF fault = "commit"
         THEN [committed |-> FALSE, closed |-> FALSE, exc |-> CommitErr]
         ELSE [committed |-> TRUE, closed |-> TRUE, exc |-> NoExc]

\* the faults the database injects into a scope: "execute" makes its first
\* statement raise; a rollback only fails where one is attempted, a commit only
\* where the scope wrote and exits normally
fault_applies(fault, exc, writes) ==
    /\ fault \in Faults
    /\ fault = "rollback" => exc # NoExc
    /\ fault = "commit" => (exc = NoExc /\ writes)

conn_state(exit) == IF exit.closed THEN "closed" ELSE "open"

Init ==
    /\ is_postgres \in BOOLEAN
    /\ users = {}
    /\ users_seq = 0
    /\ storage_new = {}
    /\ issued = {}
    /\ logged_out = {}
    /\ registered = [n \in Usernames |-> [password |-> None, id |-> 0]]
    /\ kv = [c \in Ids \X Keys |-> Absent]
    /\ last = [op |-> "init", resp |-> NoResponse]

\* ---- /api/auth/register ---------------------------------------------------
register(username, password, salt, fault) ==
    LET op == "register"
        exists == \E u \in users : u.username = username
        id == users_seq + 1
        row == [id |-> id, username |-> username,
                password_hash |-> generate_password_hash(password, salt),
                role |-> "user"]
        exc == IF fault = "execute" THEN QueryErr
               ELSE IF exists THEN unique_violation(is_postgres)
               ELSE NoExc
        exit == db_exit(exc, fault)
        token == sign(id, username)
    IN
    IF Falsy(username) \/ Falsy(password)
    THEN /\ fault = "none"
         /\ last' = [op |-> op,
                     resp |-> Response(400, ErrorBody("Username and password required"),
                                       NoChange, "none", "none")]
         /\ UNCHANGED <<is_postgres, db, issued, logged_out, registered, kv>>
    ELSE /\ fault_applies(fault, exc, TRUE)
         \* the INSERT takes a value from the sequence, within the bound
         /\ (fault # "execute" /\ (is_postgres \/ ~exists)) => users_seq < MaxId
         /\ users' = IF exit.committed THEN users \cup {row} ELSE users
         \* SERIAL hands out a value for every INSERT it evaluates; AUTOINCREMENT's
         \* counter is part of the transaction
         /\ users_seq' = IF fault = "execute" THEN users_seq
                         ELSE IF is_postgres \/ exit.committed THEN id
                         ELSE users_seq
         \* session['user_id'], session['username'] are set before __exit__ runs
         /\ issued' = IF exc = NoExc THEN issued \cup {token} ELSE issued
         /\ logged_out' = IF exc = NoExc THEN logged_out \ {token} ELSE logged_out
         /\ registered' = IF exit.exc = NoExc
                          THEN [registered EXCEPT ![username] =
                                    [password |-> password, id |-> id]]
                          ELSE registered
         /\ last' = [op |-> op,
                     resp |-> Response(
                         IF exit.exc = NoExc THEN 200
                         ELSE IF is_duplicate_error(exit.exc) THEN 400 ELSE 500,
                         IF exit.exc = NoExc THEN UserBody(row)
                         ELSE IF is_duplicate_error(exit.exc)
                              THEN ErrorBody("Username already exists")
                              ELSE ErrorBody("Registration failed"),
                         IF exc = NoExc THEN token ELSE NoChange,
                         conn_state(exit), "none")]
         /\ UNCHANGED <<is_postgres, storage_new, kv>>

\* ---- /api/auth/login ------------------------------------------------------
\* db.execute('SELECT * FROM users WHERE username = ?').fetchone()
find_user(username) ==
    IF \E u \in users : u.username = username
    THEN {CHOOSE u \in users : u.username = username}
    ELSE {}

login(username, password, fault) ==
    LET op == "login"
        found == find_user(username)
        exc == IF fault = "execute" THEN QueryErr
               ELSE IF found # {} /\ check_password_raises(password) THEN HashErr
               ELSE NoExc
        exit == db_exit(exc, fault)
        ok == /\ exc = NoExc
              /\ \E u \in found : check_password_hash(u.password_hash, password)
        user == CHOOSE u \in found : TRUE
        token == sign(user.id, user.username)
    IN   /\ fault_applies(fault, exc, FALSE)
         /\ issued' = IF ok THEN issued \cup {token} ELSE issued
         /\ logged_out' = IF ok THEN logged_out \ {token} ELSE logged_out
         /\ last' = [op |-> op,
                     resp |-> IF exit.exc # NoExc
                              THEN Response(500, InternalServerError, NoChange,
                                            conn_state(exit), "none")
                              ELSE IF ok
                              THEN Response(200, UserBody(user), token,
                                            conn_state(exit), "none")
                              ELSE Response(401, ErrorBody("Invalid username or password"),
                                            NoChange, conn_state(exit), "none")]
         /\ UNCHANGED <<is_postgres, db, registered, kv>>

\* ---- /api/auth/session, /api/auth/logout ----------------------------------
check_session(cookie) ==
    LET op == "check_session"
        sess == open_session(cookie)
    IN /\ last' = [op |-> op,
                   resp |-> IF has_user_id(sess)
                            THEN Response(200, SessionBody(sess), NoChange, "none", "none")
                            ELSE Response(401, Body("session", "", 0, "", "", Absent),
                                          NoChange, "none", "none")]
       /\ UNCHANGED <<is_postgres, db, issued, logged_out, registered, kv>>

\* session.clear(): the response deletes the caller's cookie; nothing is
\* recorded on the server.  track: whether the history logged_out is kept.
logout(cookie, track) ==
    LET op == "logout"
    IN /\ last' = [op |-> op,
                   resp |-> Response(200, SuccessBody, NoCookie, "none", "none")]
       /\ logged_out' = IF track /\ cookie.sig = "good" THEN logged_out \cup {cookie}
                        ELSE logged_out
       /\ UNCHANGED <<is_postgres, db, issued, registered, kv>>

\* ---- login_required -------------------------------------------------------
\* a bug: the guard lets every request through
login_required_skipped(cookie) == TRUE

\* 'user_id' not in session -> 401, else the wrapped handler runs
login_required(cookie) == has_user_id(open_session(cookie))

Unauthenticated(op, fault) ==
    /\ fault = "none"
    /\ last' = [op |-> op,
                resp |-> Response(401, ErrorBody("Authentication required"),
                                  NoChange, "none", "none")]
    /\ UNCHANGED <<is_postgres, db, issued, logged_out, registered, kv>>

\* ---- /api/storage ---------------------------------------------------------
\* a bug: the SELECT leaves out user_id = ?
rows_of_any_user(user_id, key) == {r \in storage_new : r.key = key}

\* the rows WHERE user_id = ? AND key = ?
rows_of(user_id, key) ==
    {r \in storage_new : r.user_id = user_id /\ r.key = key}

\* a bug: a plain INSERT, without ON CONFLICT
insert_only(table, row) == table \cup {row}

\* INSERT ... ON CONFLICT(user_id, key) DO UPDATE SET value = excluded.value
upsert(table, row) ==
    {r \in table : ~(r.user_id = row.user_id /\ r.key = row.key)} \cup {row}

\* DELETE FROM storage_new WHERE user_id = ? AND key = ?
delete_rows(table, user_id, key) ==
    {r \in table : ~(r.user_id = user_id /\ r.key = key)}

\* FOREIGN KEY (user_id) REFERENCES users(id): checked by Postgres; SQLite
\* leaves foreign keys unenforced unless PRAGMA foreign_keys is set, and
\* get_db never sets it
fk_violation(user_id) ==
    is_postgres /\ ~(\E u \in users : u.id = user_id)

get_data(cookie, key, fault) ==
    LET op == "get_data"
        user_id == open_session(cookie).user_id
        rows == rows_of(user_id, key)
        exc == IF fault = "execute" THEN QueryErr ELSE NoExc
        exit == db_exit(exc, fault)
    IN
    IF ~login_required(cookie) THEN Unauthenticated(op, fault)
    ELSE /\ fault_applies(fault, exc, FALSE)
         /\ last' = [op |-> op,
                     resp |-> IF exit.exc # NoExc
                              THEN Response(500, InternalServerError, NoChange,
                                            conn_state(exit), "none")
                              ELSE IF rows # {}
                              THEN Response(200,
                                            JsonBody(json_loads((CHOOSE r \in rows : TRUE).value)),
                                            NoChange, conn_state(exit), "none")
                              ELSE Response(200, JsonBody(JNull), NoChange,
                                            conn_state(exit), "none")]
         /\ UNCHANGED <<is_postgres, db, issued, logged_out, registered, kv>>

set_data(cookie, key, value, fault) ==
    LET op == "set_data"
        user_id == open_session(cookie).user_id
        row == [user_id |-> user_id, key |-> key, value |-> json_dumps(value)]
        exc == IF fault = "execute" THEN QueryErr
               ELSE IF fk_violation(user_id) THEN FkErr
               ELSE NoExc
        exit == db_exit(exc, fault)
    IN
    IF ~login_required(cookie) THEN Unauthenticated(op, fault)
    ELSE /\ fault_applies(fault, exc, TRUE)
         /\ storage_new' = IF exit.committed THEN upsert(storage_new, row)
                           ELSE storage_new
         /\ kv' = IF exit.exc = NoExc THEN [kv EXCEPT ![<<user_id, key>>] = value]
                  ELSE kv
         /\ last' = [op |-> op,
                     resp |-> IF exit.exc # NoExc
                              THEN Response(500, InternalServerError, NoChange,
                                            conn_state(exit), "none")
                              ELSE Response(200, SuccessBody, NoChange,
                                            conn_state(exit), "none")]
         /\ UNCHANGED <<is_postgres, users, users_seq, issued, logged_out, registered>>

remove_data(cookie, key, fault) ==
    LET op == "remove_data"
        user_id == open_session(cookie).user_id
        exc == IF fault = "execute" THEN QueryErr ELSE NoExc
        exit == db_exit(exc, fault)
    IN
    IF ~login_required(cookie) THEN Unauthenticated(op, fault)
    ELSE /\ fault_applies(fault, exc, TRUE)
         /\ storage_new' = IF exit.committed THEN delete_rows(storage_new, user_id, key)
                           ELSE storage_new
         /\ kv' = IF exit.exc = NoExc THEN [kv EXCEPT ![<<user_id, key>>] = Absent]
                  ELSE kv
         /\ last' = [op |-> op,
                     resp |-> IF exit.exc # NoExc
                              THEN Response(500, InternalServerError, NoChange,
                                            conn_state(exit), "none")
                              ELSE Response(200, SuccessBody, NoChange,
                                            conn_state(exit), "none")]
         /\ UNCHANGED <<is_postgres, users, users_seq, issued, logged_out, registered>>

\* ---- /api/chat ------------------------------------------------------------
\* GEMINI_API_KEY is read from the environment once, at import, and chat is its
\* only reader: the request carries it as an input.  provider is what
\* model.generate_content does, "ok" or "error" (it raises).
chat(cookie, GEMINI_API_KEY, provider) ==
    LET op == "chat"
    IN
    IF ~login_required(cookie) THEN provider = "ok" /\ Unauthenticated(op, "none")
    ELSE /\ ~GEMINI_API_KEY => provider = "ok"
         /\ last' = [op |-> op,
                     resp |-> IF ~GEMINI_API_KEY
                              THEN Response(500, ErrorBody("Gemini API key not configured"),
                                            NoChange, "none", "none")
                              ELSE IF provider = "ok"
                              THEN Response(200, TextBody, NoChange, "none", "ok")
                              ELSE Response(500, ErrorBody("provider error"),
                                            NoChange, "none", "error")]
         /\ UNCHANGED <<is_postgres, db, issued, logged_out, registered, kv>>

\* the cookies a request can carry: none, a forged one, or any cookie the server
\* has signed
Cookies == {NoCookie, Forged} \cup issued

Requests(track) ==
    \/ \E u \in Usernames \cup {None}, p \in PasswordInputs, s \in Salts, f \in Faults :
          register(u, p, s, f)
    \/ \E u \in Usernames \cup {None}, p \in PasswordInputs, f \in Faults : login(u, p, f)
    \/ \E c \in Cookies : check_session(c)
    \/ \E c \in Cookies : logout(c, track)
    \/ \E c \in Cookies, k \in Keys, f \in Faults : get_data(c, k, f)
    \/ \E c \in Cookies, k \in Keys, v \in JsonValues, f \in Faults : set_data(c, k, v, f)
    \/ \E c \in Cookies, k \in Keys, f \in Faults : remove_data(c, k, f)
    \/ \E c \in Cookies, a \in BOOLEAN, p \in {"ok", "error"} : chat(c, a, p)

Next == Requests(FALSE)
Spec == Init /\ [][Next]_vars

\* the same program with the history of logouts kept
NextLogout == Requests(TRUE)
SpecLogout == Init /\ [][NextLogout]_vars

\* ---- properties -----------------------------------------------------------
GuardedOps == {"get_data", "set_data", "remove_data", "chat"}

\* a request to the session endpoint or to a guarded endpoint, carrying cookie c
Presents(c) ==
    \/ check_session(c)
    \/ \E k \in Keys, f \in Faults : get_data(c, k, f) \/ remove_data(c, k, f)
    \/ \E k \in Keys, v \in JsonValues, f \in Faults : set_data(c, k, v, f)
    \/ \E a \in BOOLEAN, p \in {"ok", "error"} : chat(c, a, p)

\* C1: once logout was called with a session cookie, every later request that
\* presents that cookie to the session endpoint or a guarded endpoint is
\* answered 401, until a login or register signs that session again.
C1_logout_invalidates_token ==
    [][last'.op \in GuardedOps \cup {"check_session"} =>
       \A c \in logged_out : Presents(c) => last'.resp.status = 401]_vars

\* C7: a login that fails for an unknown username and one that fails for a
\* password that is not the registered one (missing and empty included) get the
\* same answer: 401 with the generic "Invalid username or password".
C7_generic_invalid_credentials ==
    [][last'.op = "login" =>
       \A u \in Usernames \cup {None}, p \in PasswordInputs :
          (/\ u \in Usernames => registered[u].password # p
           /\ login(u, p, "none"))
          => /\ last'.resp.status = 401
             /\ last'.resp.body = ErrorBody("Invalid username or password")]_vars

\* C8: no request returns with its database connection left open.
C8_connection_always_closed == last.resp.conn # "open"

\* C9: every row of storage_new has the id of a row of users as its user_id.
C9_storage_references_user ==
    \A r \in storage_new : \E u \in users : u.id = r.user_id

\* C10: a register or login that answers with a failure sets no session cookie,
\* and every signed session names a committed users row by id and username.
C10_failure_sets_no_session ==
    /\ (last.op \in {"register", "login"} /\ last.resp.status # 200)
          => last.resp.set_cookie = NoChange
    /\ \A c \in issued :
          \E u \in users : u.id = c.user_id /\ u.username = c.username

\* C2: a guarded endpoint called without a valid session answers 401, leaves
\* the users table, the storage table and the session untouched, and does not
\* call the provider, whether or not a provider credential is configured.
C2_unauthenticated_no_effect ==
    [][last'.op \in GuardedOps =>
       \A c \in Cookies :
          (/\ c.sig # "good"
           /\ \/ \E k \in Keys, f \in Faults : get_data(c, k, f) \/ remove_data(c, k, f)
              \/ \E k \in Keys, v \in JsonValues, f \in Faults : set_data(c, k, v, f)
              \/ \E a \in BOOLEAN, p \in {"ok", "error"} : chat(c, a, p))
          => /\ last'.resp.status = 401
             /\ last'.resp.body = ErrorBody("Authentication required")
             /\ last'.resp.set_cookie = NoChange
             /\ last'.resp.provider = "none"
             /\ last'.resp.conn = "none"
             /\ UNCHANGED <<users, users_seq, storage_new, issued>>]_vars

C2_witness ==
    /\ last.op \in GuardedOps
    /\ last.resp.status = 401
    /\ users # {}
    /\ storage_new # {}

\* the rows of a table that belong to users other than a
others(table, a) == {r \in table : r.user_id # a}

\* C3: a storage request made under the session of user a leaves every row of
\* another user as it was, and what its get returns is decoded from a row of
\* a's own (null when a has none), also when another user holds the same key.
C3_storage_isolated ==
    [][/\ last'.op = "get_data" =>
          \A c \in issued, k \in Keys, f \in Faults :
             get_data(c, k, f) =>
                LET own == {r \in storage_new : r.user_id = c.user_id /\ r.key = k}
                IN /\ others(storage_new', c.user_id) = others(storage_new, c.user_id)
                   /\ last'.resp.status = 200 =>
                         /\ last'.resp.body.kind = "json"
                         /\ IF own = {} THEN last'.resp.body.json = JNull
                            ELSE \E r \in own :
                                    last'.resp.body.json = json_loads(r.value)
       /\ last'.op = "set_data" =>
          \A c \in issued, k \in Keys, v \in JsonValues, f \in Faults :
             set_data(c, k, v, f) =>
                others(storage_new', c.user_id) = others(storage_new, c.user_id)
       /\ last'.op = "remove_data" =>
          \A c \in issued, k \in Keys, f \in Faults :
             remove_data(c, k, f) =>
                others(storage_new', c.user_id) = others(storage_new, c.user_id)]_vars

C3_witness ==
    /\ last.op = "get_data"
    /\ last.resp.status = 200
    /\ \E r1, r2 \in storage_new :
          /\ r1.user_id # r2.user_id
          /\ r1.key = r2.key
          /\ r1.value # r2.value
          /\ last.resp.body.json = json_loads(r1.value)

\* C4: the storage table is a map per user: a get returns the value of the last
\* successful set on (user, key) that no delete followed, null otherwise; no
\* two rows share (user_id, key); deleting an absent key answers success and
\* changes nothing.
C4_storage_is_a_map ==
    [][/\ \A r1, r2 \in storage_new' :
             (r1.user_id = r2.user_id /\ r1.key = r2.key) => r1 = r2
       /\ last'.op \in {"get_data", "remove_data"} =>
          \A c \in issued, k \in Keys :
             LET stored == kv[<<c.user_id, k>>]
             IN /\ get_data(c, k, "none")
                   => /\ last'.resp.status = 200
                      /\ last'.resp.body =
                            JsonBody(IF stored = Absent THEN JNull ELSE stored)
                /\ (remove_data(c, k, "none") /\ stored = Absent)
                   => /\ last'.resp.status = 200
                      /\ storage_new' = storage_new]_vars

C4_witness ==
    /\ last.op = "get_data"
    /\ last.resp.status = 200
    /\ last.resp.body.json = [t |-> "str", v |-> <<"n", "u", "l", "l">>]
    /\ Cardinality(storage_new) = 2

\* C5: registering a username that exists leaves the users table as it was,
\* with one row for that username, and, when no database fault interferes,
\* answers 400 "Username already exists" whatever the password.
C5_duplicate_username_rejected ==
    [][last'.op = "register" =>
       \A u \in Usernames, p \in PasswordInputs, s \in Salts, f \in Faults :
          (/\ \E r \in users : r.username = u
           /\ register(u, p, s, f))
          => /\ users' = users
             /\ Cardinality({r \in users' : r.username = u}) = 1
             /\ (f = "none" /\ p \in Passwords)
                => /\ last'.resp.status = 400
                   /\ last'.resp.body = ErrorBody("Username already exists")
                   /\ last'.resp.set_cookie = NoChange]_vars

C5_witness ==
    /\ last.op = "register"
    /\ last.resp.status = 400
    /\ last.resp.body = ErrorBody("Username already exists")
    /\ Cardinality(users) = 2

\* C6: once register(username, password) has answered success with an id, a
\* login with the same username and password answers success with that id,
\* whatever happened in between, unless a database fault interferes.
C6_register_then_login ==
    [][last'.op = "login" =>
       \A u \in Usernames, p \in Passwords :
          (/\ registered[u].password = p
           /\ login(u, p, "none"))
          => /\ last'.resp.status = 200
             /\ last'.resp.body.kind = "user"
             /\ last'.resp.body.user_id = registered[u].id
             /\ last'.resp.body.username = u
             /\ last'.resp.set_cookie = sign(registered[u].id, u)]_vars

C6_witness ==
    /\ last.op = "login"
    /\ last.resp.status = 200
    /\ last.resp.body.user_id = 2
    /\ registered[last.resp.body.username].id = 2
    /\ storage_new # {}
====
